---- MODULE Spec2Model ----
(***************************************************************************)
(* The diagram builder of src/components/Overview.tsx: the useMemo         *)
(* callback that turns the list of sequences into React Flow nodes and     *)
(* edges, the view state it initialises, and the onConnect callback.       *)
(*                                                                         *)
(* Identifiers are strings and node / edge identifiers are built by the    *)
(* same concatenations as the template literals of the source.             *)
(***************************************************************************)
EXTENDS Integers, Sequences, FiniteSets, TLC

(***************************************************************************)
(* Bounds of the model.                                                    *)
(***************************************************************************)
\* size of the input: its sequences, videos and dependency entries together
MaxItems == 5
\* user connections that add an edge to the view
MaxConnects == 2

(***************************************************************************)
(* Identifiers the input is drawn from.  "sequence" is the word the header *)
(* identifier is prefixed with (line 115).                                 *)
(***************************************************************************)
SeqIds == {"A", "sequence"}
VideoIds == {"a1", "sequence"}
DepIds == {"a1", "sequence"}

\* a null / absent value of a Connection field (falsy in addEdge's guards)
Null == ""

(***************************************************************************)
(* Constants of the builder.                                               *)
(***************************************************************************)
sequenceSpacing == 600
videoSpacing == 420

(***************************************************************************)
(* The input data (src/data/sequences.json): a list of sequences, each     *)
(* with an id and an ordered list of videos; a video has an id and a list  *)
(* of dependency ids (an absent list is the empty list: both add no edge). *)
(***************************************************************************)
ListsUpTo(S, n) == UNION {[1..k -> S] : k \in 0..n}

RECURSIVE DepCount(_)
DepCount(videos) ==
  IF videos = <<>> THEN 0
  ELSE Len(Head(videos).dependencies) + DepCount(Tail(videos))

\* the size of a list of videos: the videos and their dependency entries
Size(videos) == Len(videos) + DepCount(videos)

\* the video lists of size at most n
RECURSIVE VideoLists(_)
VideoLists(n) ==
  IF n = 0 THEN {<<>>}
  ELSE {<<>>} \cup UNION {
         {<<[id |-> v[1], dependencies |-> v[2]]>> \o rest :
            rest \in VideoLists(n - 1 - Len(v[2]))} :
         v \in VideoIds \X ListsUpTo(DepIds, n - 1)}

\* the sequence lists of size at most n
RECURSIVE SequenceLists(_)
SequenceLists(n) ==
  IF n = 0 THEN {<<>>}
  ELSE {<<>>} \cup UNION {
         {<<[id |-> s[1], videos |-> s[2]]>> \o rest :
            rest \in SequenceLists(n - 1 - Size(s[2]))} :
         s \in SeqIds \X VideoLists(n - 1)}

\* the example of the specification's section 8
ExampleInput ==
  << [id |-> "A", videos |-> << [id |-> "a1", dependencies |-> <<>>],
                                [id |-> "a2", dependencies |-> <<>>] >>],
     [id |-> "B", videos |-> << [id |-> "b1", dependencies |-> <<"a2">>] >>] >>

Inputs == SequenceLists(MaxItems) \cup {ExampleInput}

(***************************************************************************)
(* State.                                                                  *)
(***************************************************************************)
VARIABLES
  sequences,     \* the imported data, never written
  pc,            \* "sequence": outer forEach; "video": inner forEach; "view": mounted
  seqIndex,      \* index (from 0) of the sequence the outer forEach is at
  videoIndex,    \* index (from 0) of the video the inner forEach is at
  yOffset,       \* the builder's yOffset
  initialNodes,  \* the builder's nodes array, returned as initialNodes
  initialEdges,  \* the builder's edges array, returned as initialEdges
  nodes,         \* the view's node state (useNodesState)
  edges,         \* the view's edge state (useEdgesState)
  rerun,         \* whether the builder has been started a second time
  previousNodes, \* what the previous execution of the builder returned
  previousEdges

vars == <<sequences, pc, seqIndex, videoIndex, yOffset, initialNodes, initialEdges,
          nodes, edges, rerun, previousNodes, previousEdges>>

(***************************************************************************)
(* The builder's pure parts.                                               *)
(***************************************************************************)
\* line 115
headerNodeId(sequence) == "sequence-" \o sequence.id

\* lines 129 and 161
videoNodeId(sequence, video) == sequence.id \o "-" \o video.id

\* lines 116-125
HeaderNode(sequence, y) ==
  [id |-> headerNodeId(sequence), type |-> "sequenceHeader",
   position |-> [x |-> 0, y |-> y]]

\* a mutant of VideoNode: the horizontal offset counts from the video's index
VideoNodeFromZero(sequence, index, y) ==
  [id |-> videoNodeId(sequence, sequence.videos[index + 1]), type |-> "videoNode",
   position |-> [x |-> index * videoSpacing, y |-> y]]

\* lines 131-144
VideoNode(sequence, index, y) ==
  [id |-> videoNodeId(sequence, sequence.videos[index + 1]), type |-> "videoNode",
   position |-> [x |-> (index + 1) * videoSpacing, y |-> y]]

\* a mutant of HeaderEdge: the test of videoIndex is missing
HeaderEdgeEveryVideo(sequence, index) ==
  << [id |-> headerNodeId(sequence) \o "-"
               \o videoNodeId(sequence, sequence.videos[index + 1]),
      source |-> headerNodeId(sequence), sourceHandle |-> "sequence-out",
      target |-> videoNodeId(sequence, sequence.videos[index + 1]),
      targetHandle |-> "sequence-in"] >>

\* lines 147-157
HeaderEdge(sequence, index) ==
  IF index = 0
  THEN << [id |-> headerNodeId(sequence) \o "-"
                    \o videoNodeId(sequence, sequence.videos[index + 1]),
           source |-> headerNodeId(sequence), sourceHandle |-> "sequence-out",
           target |-> videoNodeId(sequence, sequence.videos[index + 1]),
           targetHandle |-> "sequence-in"] >>
  ELSE <<>>

\* lines 160-171
PreviousEdge(sequence, index) ==
  IF index > 0
  THEN << [id |-> videoNodeId(sequence, sequence.videos[index]) \o "-"
                    \o videoNodeId(sequence, sequence.videos[index + 1]),
           source |-> videoNodeId(sequence, sequence.videos[index]),
           sourceHandle |-> "sequence-out",
           target |-> videoNodeId(sequence, sequence.videos[index + 1]),
           targetHandle |-> "sequence-in"] >>
  ELSE <<>>

\* videos.some(v => v.id === depId), line 178
SomeVideo(videos, depId) == \E k \in 1..Len(videos) : videos[k].id = depId

\* sequences.flatMap(seq => seq.videos).find(v => v.id === depId), lines 176-177
RECURSIVE FlatMapFinds(_, _)
FlatMapFinds(seqs, depId) ==
  IF seqs = <<>> THEN FALSE
  ELSE IF SomeVideo(Head(seqs).videos, depId) THEN TRUE
  ELSE FlatMapFinds(Tail(seqs), depId)

\* a mutant of FindSequenceId: the last sequence that holds the video wins
RECURSIVE FindSequenceIdLast(_, _)
FindSequenceIdLast(seqs, depId) ==
  IF seqs = <<>> THEN "undefined"
  ELSE IF SomeVideo(seqs[Len(seqs)].videos, depId) THEN seqs[Len(seqs)].id
  ELSE FindSequenceIdLast(SubSeq(seqs, 1, Len(seqs) - 1), depId)

\* sequences.find(seq => seq.videos.some(v => v.id === depId))?.id, line 178
RECURSIVE FindSequenceId(_, _)
FindSequenceId(seqs, depId) ==
  IF seqs = <<>> THEN "undefined"
  ELSE IF SomeVideo(Head(seqs).videos, depId) THEN Head(seqs).id
  ELSE FindSequenceId(Tail(seqs), depId)

\* a mutant of sourceNodeId: the lookup of the video is missing, and the
\* template literal is a non-empty string whatever find returns
sourceNodeIdUnchecked(seqs, depId) == FindSequenceId(seqs, depId) \o "-" \o depId

\* lines 176-179
sourceNodeId(seqs, depId) ==
  IF FlatMapFinds(seqs, depId)
  THEN FindSequenceId(seqs, depId) \o "-" \o depId
  ELSE Null

\* a mutant of DependencyEdge: the edge runs from the dependent video
DependencyEdgeReversed(seqs, nodeId, depId) ==
  IF sourceNodeId(seqs, depId) # Null
  THEN << [id |-> sourceNodeId(seqs, depId) \o "-" \o nodeId \o "-dependency",
           source |-> nodeId, sourceHandle |-> "prereq-out",
           target |-> sourceNodeId(seqs, depId), targetHandle |-> "prereq-in"] >>
  ELSE <<>>

\* lines 181-204, for one entry of video.dependencies
DependencyEdge(seqs, nodeId, depId) ==
  IF sourceNodeId(seqs, depId) # Null
  THEN << [id |-> sourceNodeId(seqs, depId) \o "-" \o nodeId \o "-dependency",
           source |-> sourceNodeId(seqs, depId), sourceHandle |-> "prereq-out",
           target |-> nodeId, targetHandle |-> "prereq-in"] >>
  ELSE <<>>

\* video.dependencies.forEach, lines 174-206
RECURSIVE DependencyEdges(_, _, _)
DependencyEdges(seqs, nodeId, deps) ==
  IF deps = <<>> THEN <<>>
  ELSE DependencyEdge(seqs, nodeId, Head(deps))
         \o DependencyEdges(seqs, nodeId, Tail(deps))

\* every edge one iteration of the inner forEach pushes, lines 146-206
VideoEdges(seqs, sequence, index) ==
  HeaderEdge(sequence, index) \o PreviousEdge(sequence, index)
    \o DependencyEdges(seqs, videoNodeId(sequence, sequence.videos[index + 1]),
                       sequence.videos[index + 1].dependencies)

(***************************************************************************)
(* addEdge of the reactflow library, as onConnect uses it.                 *)
(***************************************************************************)
\* the id addEdge gives a connection
getEdgeId(params) ==
  "reactflow__edge-" \o params.source \o params.sourceHandle
    \o "-" \o params.target \o params.targetHandle

connectionExists(edge, eds) ==
  \E k \in 1..Len(eds) :
    /\ eds[k].source = edge.source
    /\ eds[k].target = edge.target
    /\ eds[k].sourceHandle = edge.sourceHandle
    /\ eds[k].targetHandle = edge.targetHandle

addEdge(params, eds) ==
  IF params.source = Null \/ params.target = Null THEN eds
  ELSE IF connectionExists(params, eds) THEN eds
  ELSE Append(eds, [id |-> getEdgeId(params), source |-> params.source,
                    sourceHandle |-> params.sourceHandle, target |-> params.target,
                    targetHandle |-> params.targetHandle])

\* the connections a user gesture can hand to onConnect: from the first node
\* of the view to its last one, or a connection with an end missing
Connections(ns) ==
  IF ns = <<>> THEN {}
  ELSE [source : {Null, ns[1].id}, sourceHandle : {"sequence-out", "prereq-out"},
        target : {Null, ns[Len(ns)].id}, targetHandle : {"sequence-in", "prereq-in"}]

(***************************************************************************)
(* Initial state: the builder is about to start on some input.             *)
(***************************************************************************)
Init ==
  /\ sequences \in Inputs
  /\ pc = "sequence"
  /\ seqIndex = 0
  /\ videoIndex = 0
  /\ yOffset = 0
  /\ initialNodes = <<>>
  /\ initialEdges = <<>>
  /\ nodes = <<>>
  /\ edges = <<>>
  /\ rerun = FALSE
  /\ previousNodes = <<>>
  /\ previousEdges = <<>>

(***************************************************************************)
(* Actions.                                                                *)
(***************************************************************************)
\* outer forEach, start of one iteration: the header node (lines 113-125)
StartSequence ==
  /\ pc = "sequence"
  /\ seqIndex < Len(sequences)
  /\ initialNodes' = Append(initialNodes, HeaderNode(sequences[seqIndex + 1], yOffset))
  /\ videoIndex' = 0
  /\ pc' = "video"
  /\ UNCHANGED <<sequences, seqIndex, yOffset, initialEdges, nodes, edges, rerun,
                 previousNodes, previousEdges>>

\* inner forEach, one iteration: the video's node and its edges (lines 128-207)
ProcessVideo ==
  /\ pc = "video"
  /\ videoIndex < Len(sequences[seqIndex + 1].videos)
  /\ initialNodes' =
       Append(initialNodes, VideoNode(sequences[seqIndex + 1], videoIndex, yOffset))
  /\ initialEdges' =
       initialEdges \o VideoEdges(sequences, sequences[seqIndex + 1], videoIndex)
  /\ videoIndex' = videoIndex + 1
  /\ UNCHANGED <<sequences, pc, seqIndex, yOffset, nodes, edges, rerun,
                 previousNodes, previousEdges>>

\* outer forEach, end of one iteration (line 209)
EndSequence ==
  /\ pc = "video"
  /\ videoIndex = Len(sequences[seqIndex + 1].videos)
  /\ yOffset' = yOffset + sequenceSpacing
  /\ seqIndex' = seqIndex + 1
  /\ pc' = "sequence"
  /\ UNCHANGED <<sequences, videoIndex, initialNodes, initialEdges, nodes, edges, rerun,
                 previousNodes, previousEdges>>

\* the builder returns and the view state is initialised (lines 215-219)
Mount ==
  /\ pc = "sequence"
  /\ seqIndex = Len(sequences)
  /\ nodes' = initialNodes
  /\ edges' = initialEdges
  /\ pc' = "view"
  /\ UNCHANGED <<sequences, seqIndex, videoIndex, yOffset, initialNodes, initialEdges,
                 rerun, previousNodes, previousEdges>>

\* a mutant of OnConnect: the edge is added to the edges the callback closed
\* over, setEdges(addEdge(params, initialEdges)), not to the current ones
OnConnectStale ==
  /\ pc = "view"
  /\ Len(edges) < Len(initialEdges) + MaxConnects
  /\ \E params \in Connections(nodes) :
       edges' = addEdge(params, initialEdges)
  /\ UNCHANGED <<sequences, pc, seqIndex, videoIndex, yOffset, initialNodes,
                 initialEdges, nodes, rerun, previousNodes, previousEdges>>

\* onConnect (lines 221-224)
OnConnect ==
  /\ pc = "view"
  /\ Len(edges) < Len(initialEdges) + MaxConnects
  /\ \E params \in Connections(nodes) :
       edges' = addEdge(params, edges)
  /\ UNCHANGED <<sequences, pc, seqIndex, videoIndex, yOffset, initialNodes,
                 initialEdges, nodes, rerun, previousNodes, previousEdges>>

\* a mutant of Rerun: yOffset outlives the execution of the builder
RerunKeepsOffset ==
  /\ pc = "view"
  /\ ~rerun
  /\ rerun' = TRUE
  /\ previousNodes' = initialNodes
  /\ previousEdges' = initialEdges
  /\ initialNodes' = <<>>
  /\ initialEdges' = <<>>
  /\ seqIndex' = 0
  /\ videoIndex' = 0
  /\ nodes' = <<>>
  /\ edges' = <<>>
  /\ pc' = "sequence"
  /\ UNCHANGED <<sequences, yOffset>>

\* the component is mounted again: useMemo's callback runs on fresh locals
\* (lines 103-109)
Rerun ==
  /\ pc = "view"
  /\ ~rerun
  /\ rerun' = TRUE
  /\ previousNodes' = initialNodes
  /\ previousEdges' = initialEdges
  /\ initialNodes' = <<>>
  /\ initialEdges' = <<>>
  /\ yOffset' = 0
  /\ seqIndex' = 0
  /\ videoIndex' = 0
  /\ nodes' = <<>>
  /\ edges' = <<>>
  /\ pc' = "sequence"
  /\ UNCHANGED sequences

Next == StartSequence \/ ProcessVideo \/ EndSequence \/ Mount \/ OnConnect

Spec == Init /\ [][Next]_vars

NextRerun == StartSequence \/ ProcessVideo \/ EndSequence \/ Mount \/ Rerun

SpecRerun == Init /\ [][NextRerun]_vars

(***************************************************************************)
(* Vocabulary of the properties.                                           *)
(***************************************************************************)
IsFlow(e) == e.sourceHandle = "sequence-out" /\ e.targetHandle = "sequence-in"

IsPrerequisite(e) == e.sourceHandle = "prereq-out" /\ e.targetHandle = "prereq-in"

FlowEdges(es) == SelectSeq(es, IsFlow)

PrerequisiteEdges(es) == SelectSeq(es, IsPrerequisite)

\* the input's data invariant: video ids are unique within their sequence
UniqueVideoIds ==
  \A i \in 1..Len(sequences) :
    \A k, l \in 1..Len(sequences[i].videos) :
      sequences[i].videos[k].id = sequences[i].videos[l].id => k = l

\* the ids of a list of nodes or edges are pairwise different
DistinctIds(list) == \A k, l \in 1..Len(list) : list[k].id = list[l].id => k = l

\* d is the id of some video of the input
Resolvable(d) ==
  \E i \in 1..Len(sequences) :
    \E k \in 1..Len(sequences[i].videos) : sequences[i].videos[k].id = d

\* the first sequence, in input order, that holds a video with id d
FirstSequenceWith(d) ==
  sequences[CHOOSE i \in 1..Len(sequences) :
              /\ \E k \in 1..Len(sequences[i].videos) : sequences[i].videos[k].id = d
              /\ \A j \in 1..(i - 1) :
                   \A k \in 1..Len(sequences[j].videos) : sequences[j].videos[k].id # d]

RECURSIVE VideosIn(_)
VideosIn(seqs) == IF seqs = <<>> THEN 0 ELSE Len(Head(seqs).videos) + VideosIn(Tail(seqs))

\* the sequence and the video the inner forEach is at
CurrentSequence == sequences[seqIndex + 1]

CurrentVideo == CurrentSequence.videos[videoIndex + 1]

\* a step of the inner forEach
VideoStep == pc = "video" /\ videoIndex' = videoIndex + 1

\* what a step appended to the builder's edges
NewEdges == SubSeq(initialEdges', Len(initialEdges) + 1, Len(initialEdges'))

ResolvableEntry(d) == Resolvable(d)

ResolvableEntries(deps) == SelectSeq(deps, ResolvableEntry)

(***************************************************************************)
(* C1: the sequence-flow edges emitted for a sequence are as many as its   *)
(* videos.  At every point of the build the builder has emitted one        *)
(* sequence-flow edge per video of every finished sequence (none for a     *)
(* sequence without videos) and one per video done of the current one.     *)
(***************************************************************************)
C1_FlowEdgesPerSequence ==
  Len(FlowEdges(initialEdges)) =
    VideosIn(SubSeq(sequences, 1, seqIndex)) + (IF pc = "video" THEN videoIndex ELSE 0)

C1_Witness ==
  /\ pc = "view"
  /\ Len(sequences) = 2
  /\ Len(sequences[1].videos) = 0
  /\ Len(sequences[2].videos) = 2
  /\ Len(FlowEdges(initialEdges)) = 2

(***************************************************************************)
(* C2: in the step that handles video v, every entry of v's dependency     *)
(* list that names a video of the input adds exactly one prerequisite edge *)
(* (into v's node), an entry that names none adds nothing, and the step    *)
(* still adds v's node and the edges it adds without the unresolved        *)
(* entries.                                                                *)
(***************************************************************************)
C2_OneEdgePerResolvableEntry ==
  [][VideoStep =>
       LET deps == CurrentVideo.dependencies
           kept == ResolvableEntries(deps)
           nodeId == CurrentSequence.id \o "-" \o CurrentVideo.id
           reduced == [CurrentSequence EXCEPT !.videos[videoIndex + 1].dependencies = kept]
       IN /\ Len(PrerequisiteEdges(NewEdges)) = Len(kept)
          /\ \A k \in 1..Len(kept) :
               /\ PrerequisiteEdges(NewEdges)[k].target = nodeId
               /\ PrerequisiteEdges(NewEdges)[k].id =
                    PrerequisiteEdges(NewEdges)[k].source \o "-" \o nodeId \o "-dependency"
          /\ Len(FlowEdges(NewEdges)) = 1
          /\ Len(NewEdges) = 1 + Len(kept)
          /\ NewEdges = VideoEdges(sequences, reduced, videoIndex)
          /\ Len(initialNodes') = Len(initialNodes) + 1
          /\ initialNodes'[Len(initialNodes')].id = nodeId
          /\ pc' = "video"]_vars

C2_Witness ==
  /\ pc = "view"
  /\ \E i \in 1..Len(sequences) :
       \E k \in 1..Len(sequences[i].videos) :
         LET deps == sequences[i].videos[k].dependencies
         IN /\ Len(deps) = 2
            /\ ~Resolvable(deps[1])
            /\ Resolvable(deps[2])
  /\ Len(PrerequisiteEdges(initialEdges)) = 1
  /\ Len(FlowEdges(initialEdges)) = Len(initialNodes) - Len(sequences)

(***************************************************************************)
(* C3: when video ids are unique within their sequence, no two nodes of    *)
(* the generated node list have the same id.                               *)
(***************************************************************************)
C3_NodeIdsUnique == UniqueVideoIds => DistinctIds(initialNodes)

(***************************************************************************)
(* C4: the example of two sequences, A (a1 then a2) and B (b1 depending on *)
(* a2).  The kind of an edge is read off its handles.                      *)
(***************************************************************************)
Kind(e) ==
  IF IsFlow(e) THEN "sequence flow"
  ELSE IF IsPrerequisite(e) THEN "prerequisite" ELSE "other"

IdSet(list) == {list[k].id : k \in 1..Len(list)}

EdgeSet(list) == {<<list[k].source, list[k].target, Kind(list[k])>> : k \in 1..Len(list)}

ExampleEdges(headerA, headerB) ==
  { <<headerA, "A-a1", "sequence flow">>, <<"A-a1", "A-a2", "sequence flow">>,
    <<headerB, "B-b1", "sequence flow">>, <<"A-a2", "B-b1", "prerequisite">> }

\* C4 as stated: the header nodes are seq-A and seq-B
C4_ExampleAsStated ==
  (pc = "view" /\ sequences = ExampleInput) =>
    /\ IdSet(initialNodes) = {"seq-A", "A-a1", "A-a2", "seq-B", "B-b1"}
    /\ Len(initialNodes) = 5
    /\ EdgeSet(initialEdges) = ExampleEdges("seq-A", "seq-B")
    /\ Len(initialEdges) = 4

\* C4 as amended: the header nodes are sequence-A and sequence-B, and the
\* rest of the example is as stated
C4_Example ==
  (pc = "view" /\ sequences = ExampleInput) =>
    /\ IdSet(initialNodes) = {"sequence-A", "A-a1", "A-a2", "sequence-B", "B-b1"}
    /\ Len(initialNodes) = 5
    /\ EdgeSet(initialEdges) = ExampleEdges("sequence-A", "sequence-B")
    /\ Len(initialEdges) = 4

C4_Witness ==
  /\ pc = "view"
  /\ sequences = ExampleInput
  /\ nodes = initialNodes
  /\ edges = initialEdges
  /\ Len(edges) = 4

(***************************************************************************)
(* C5: while the builder is in a sequence of which it has done the videos  *)
(* v1..vn (n >= 1), the last n sequence-flow edges are header -> v1 and    *)
(* vi -> v(i+1), and the nodes header, v1, .., vn are pairwise different,  *)
(* so that these edges are a simple path through the nodes of that one     *)
(* sequence.                                                               *)
(***************************************************************************)
PathNodes(sequence, n) ==
  [j \in 1..(n + 1) |->
     IF j = 1 THEN "sequence-" \o sequence.id
     ELSE sequence.id \o "-" \o sequence.videos[j - 1].id]

C5_FlowEdgesFormSimplePath ==
  (pc = "video" /\ videoIndex >= 1 /\ UniqueVideoIds) =>
    LET flow == FlowEdges(initialEdges)
        base == Len(flow) - videoIndex
        path == PathNodes(CurrentSequence, videoIndex)
    IN /\ base >= 0
       /\ \A j \in 1..videoIndex :
            /\ flow[base + j].source = path[j]
            /\ flow[base + j].target = path[j + 1]
       /\ \A j, l \in 1..(videoIndex + 1) : path[j] = path[l] => j = l

(***************************************************************************)
(* C6: a second execution of the builder on the same input returns the     *)
(* same node list and the same edge list as the first.                     *)
(***************************************************************************)
C6_Deterministic ==
  (rerun /\ pc = "view") =>
    /\ initialNodes = previousNodes
    /\ initialEdges = previousEdges

C6_Witness ==
  /\ rerun
  /\ pc = "view"
  /\ Len(previousNodes) >= 4
  /\ Len(PrerequisiteEdges(previousEdges)) >= 1
  /\ previousNodes[Len(previousNodes)].position.y > 0

(***************************************************************************)
(* C7: the header of the i-th sequence (i from 0) is at (0, i * 600) and   *)
(* its j-th video (j from 0) at ((j + 1) * 420, i * 600); no two nodes     *)
(* have the same position.  The k-th node of the list is read as the       *)
(* header or the video it stands for by counting the headers before it.    *)
(***************************************************************************)
IsHeader(k) == initialNodes[k].type = "sequenceHeader"

\* the index (from 0) of the sequence the k-th node belongs to
SequenceOf(k) == Cardinality({m \in 1..k : IsHeader(m)}) - 1

\* the index (from 0) of the video the k-th node stands for, -1 for a header
VideoOf(k) == k - (CHOOSE m \in 1..k : IsHeader(m) /\ \A h \in (m + 1)..k : ~IsHeader(h)) - 1

C7_GridPositions ==
  /\ Len(initialNodes) >= 1 => IsHeader(1)
  /\ \A k \in 1..Len(initialNodes) :
       LET i == SequenceOf(k)
           j == VideoOf(k)
       IN IF IsHeader(k)
          THEN /\ initialNodes[k].id = "sequence-" \o sequences[i + 1].id
               /\ initialNodes[k].position = [x |-> 0, y |-> i * 600]
          ELSE /\ initialNodes[k].id =
                    sequences[i + 1].id \o "-" \o sequences[i + 1].videos[j + 1].id
               /\ initialNodes[k].position = [x |-> (j + 1) * 420, y |-> i * 600]
  /\ \A k, l \in 1..Len(initialNodes) :
       initialNodes[k].position = initialNodes[l].position => k = l
  /\ pc = "view" => Len(initialNodes) = Len(sequences) + VideosIn(sequences)

C7_Witness ==
  /\ pc = "view"
  /\ Len(sequences) = 3
  /\ sequences[2].videos = <<>>
  /\ Len(sequences[3].videos) = 1
  /\ initialNodes[Len(initialNodes)].position = [x |-> 420, y |-> 1200]

(***************************************************************************)
(* C8: the prerequisite edge for an entry d of video v of sequence s runs  *)
(* into v's node s-v from the node t-d, t being the first sequence of the  *)
(* input that holds a video with id d, also when t = s or d = v; when the  *)
(* builder is done, that source is the id of a generated node.             *)
(***************************************************************************)
C8_PrerequisiteEnds ==
  /\ [](pc = "view" =>
          \A k \in 1..Len(initialEdges) :
            IsPrerequisite(initialEdges[k]) =>
              \E n \in 1..Len(initialNodes) : initialNodes[n].id = initialEdges[k].source)
  /\ [][VideoStep =>
          LET kept == ResolvableEntries(CurrentVideo.dependencies)
              new == PrerequisiteEdges(NewEdges)
          IN /\ Len(new) = Len(kept)
             /\ \A k \in 1..Len(kept) :
                  /\ new[k].target = CurrentSequence.id \o "-" \o CurrentVideo.id
                  /\ new[k].source = FirstSequenceWith(kept[k]).id \o "-" \o kept[k]]_vars

\* the second sequence's video depends on itself, and the first sequence,
\* under another id, holds a video of the same id: the edge leaves the first
C8_Witness ==
  /\ pc = "view"
  /\ Len(sequences) = 2
  /\ sequences[1].id # sequences[2].id
  /\ Len(sequences[1].videos) = 1
  /\ Len(sequences[2].videos) = 1
  /\ sequences[1].videos[1].id = sequences[2].videos[1].id
  /\ sequences[2].videos[1].dependencies = <<sequences[2].videos[1].id>>
  /\ Len(initialEdges) = 3
  /\ initialEdges[3].source = sequences[1].id \o "-" \o sequences[1].videos[1].id
  /\ initialEdges[3].target = sequences[2].id \o "-" \o sequences[2].videos[1].id

(***************************************************************************)
(* C9: when video ids are unique within their sequence, no two edges of    *)
(* the generated edge list have the same id.                               *)
(***************************************************************************)
C9_EdgeIdsUnique == UniqueVideoIds => DistinctIds(initialEdges)

(***************************************************************************)
(* C10: once the view is mounted the builder does not run again, and a     *)
(* connect event leaves the node list alone and keeps every edge of the    *)
(* edge list in place, adding at most one edge after them.                 *)
(***************************************************************************)
C10_ConnectOnlyAdds ==
  [][pc = "view" =>
       /\ pc' = "view"
       /\ nodes' = nodes
       /\ initialNodes' = initialNodes
       /\ initialEdges' = initialEdges
       /\ Len(edges') \in {Len(edges), Len(edges) + 1}
       /\ SubSeq(edges', 1, Len(edges)) = edges
       /\ SubSeq(edges', 1, Len(initialEdges)) = initialEdges]_vars

C10_Witness ==
  /\ pc = "view"
  /\ Len(initialEdges) >= 2
  /\ Len(edges) = Len(initialEdges) + 2
  /\ SubSeq(edges, 1, Len(initialEdges)) = initialEdges

====
